---- MODULE Spec2Model ----
(***************************************************************************)
(* Model of table-to-csv/resolve_refs_from_txt_to_doi.py: the reference    *)
(* segmenter, the catalog query, the candidate scorer and the resumable    *)
(* resolution loop; and of table-to-csv/expand-refs-attach-dois.py, which  *)
(* attaches the resolved DOIs to the rows of a data table.                 *)
(*                                                                         *)
(* Python strings are sequences of one-character strings, so that the      *)
(* normalisation helpers, substring tests and regular expressions of the   *)
(* source are computed and not assumed.  A Python dict is a function whose *)
(* DOMAIN is the set of keys present; None / a missing key is handled by   *)
(* Get, as dict.get does.                                                  *)
(***************************************************************************)
EXTENDS Integers, Sequences, FiniteSets, TLC

(***************************************************************************)
(* Characters and strings                                                  *)
(***************************************************************************)
DigitChars == {"0", "1", "2", "3", "4", "5", "6", "7", "8", "9"}

UpperSeq == <<"A", "B", "C", "D", "E", "F", "G", "H", "I", "J", "K", "L", "M",
              "N", "O", "P", "Q", "R", "S", "T", "U", "V", "W", "X", "Y", "Z">>

LowerSeq == <<"a", "b", "c", "d", "e", "f", "g", "h", "i", "j", "k", "l", "m",
              "n", "o", "p", "q", "r", "s", "t", "u", "v", "w", "x", "y", "z">>

UpperChars == {UpperSeq[i] : i \in DOMAIN UpperSeq}

LowerChars == {LowerSeq[i] : i \in DOMAIN LowerSeq}

WhiteSpace == {" "}

\* str.lower() on one character
LowerChar(c) ==
    IF c \in UpperChars
    THEN LowerSeq[CHOOSE i \in DOMAIN UpperSeq : UpperSeq[i] = c]
    ELSE c

\* the regular-expression class \w
IsWordChar(c) == c \in DigitChars \cup UpperChars \cup LowerChars \cup {"_"}

IsSpace(c) == c \in WhiteSpace

IsDigit(c) == c \in DigitChars

Lower(s) == [i \in DOMAIN s |-> LowerChar(s[i])]

RECURSIVE LStrip(_)
LStrip(s) == IF s # <<>> /\ IsSpace(Head(s)) THEN LStrip(Tail(s)) ELSE s

RECURSIVE RStrip(_)
RStrip(s) ==
    IF s # <<>> /\ IsSpace(s[Len(s)]) THEN RStrip(SubSeq(s, 1, Len(s) - 1)) ELSE s

\* str.strip()
Strip(s) == RStrip(LStrip(s))

\* re.sub(r"\s+", " ", s): every maximal run of whitespace becomes one space
RECURSIVE CollapseSpaces(_)
CollapseSpaces(s) ==
    IF s = <<>> THEN <<>>
    ELSE IF IsSpace(Head(s))
         THEN <<" ">> \o CollapseSpaces(LStrip(s))
         ELSE <<Head(s)>> \o CollapseSpaces(Tail(s))

\* re.sub(r"[^\w\s&]", " ", s)
PunctToSpace(s) ==
    [i \in DOMAIN s |->
        IF IsWordChar(s[i]) \/ IsSpace(s[i]) \/ s[i] = "&" THEN s[i] ELSE " "]

norm(s) == CollapseSpaces(Strip(Lower(s)))

norm_punct(s) == CollapseSpaces(PunctToSpace(norm(s)))

\* re.sub(r"\D+", "", s)
only_digits(s) == SelectSeq(s, IsDigit)

\* s.replace(" ", "")
RemoveSpaces(s) == SelectSeq(s, LAMBDA c : c # " ")

\* Python's `needle in hay` on strings
Contains(hay, needle) ==
    \E p \in 1..(Len(hay) - Len(needle) + 1) :
        SubSeq(hay, p, p + Len(needle) - 1) = needle

\* the regular-expression assertion \b between positions p-1 and p of s
WordBoundary(s, p) ==
    LET before == p - 1 \in DOMAIN s /\ IsWordChar(s[p - 1])
        after  == p \in DOMAIN s /\ IsWordChar(s[p])
    IN  before # after

\* re.search(rf"\b{re.escape(w)}\b", s)
SearchWholeToken(w, s) ==
    \E p \in 1..(Len(s) - Len(w) + 1) :
        /\ SubSeq(s, p, p + Len(w) - 1) = w
        /\ WordBoundary(s, p)
        /\ WordBoundary(s, p + Len(w))

\* str(n) for a natural number n
RECURSIVE IntToStr(_)
IntToStr(n) ==
    LET d == CASE n % 10 = 0 -> "0" [] n % 10 = 1 -> "1" [] n % 10 = 2 -> "2"
               [] n % 10 = 3 -> "3" [] n % 10 = 4 -> "4" [] n % 10 = 5 -> "5"
               [] n % 10 = 6 -> "6" [] n % 10 = 7 -> "7" [] n % 10 = 8 -> "8"
               [] OTHER -> "9"
    IN  IF n < 10 THEN <<d>> ELSE IntToStr(n \div 10) \o <<d>>

\* dict.get(key, default)
Get(d, key, default) == IF key \in DOMAIN d THEN d[key] ELSE default

\* `x or default` for a value that is falsy when it is the empty string/list
OrElse(x, default) == IF x = <<>> THEN default ELSE x

(***************************************************************************)
(* Journal abbreviation map (three of the entries of JOURNAL_MAP: one      *)
(* whose key norm_punct can produce, and a dotted pair)                    *)
(***************************************************************************)
KeyAcsNano == <<"a", "c", "s", " ", "n", "a", "n", "o">>

KeyRscAdv == <<"r", "s", "c", " ", "a", "d", "v">>

KeyRscAdvDot == <<"r", "s", "c", " ", "a", "d", "v", ".">>

FullAcsNano == <<"A", "C", "S", " ", "N", "a", "n", "o">>

FullRscAdvances == <<"R", "S", "C", " ", "A", "d", "v", "a", "n", "c", "e", "s">>

JOURNAL_MAP ==
    [k \in {KeyAcsNano, KeyRscAdv, KeyRscAdvDot} |->
        IF k = KeyAcsNano THEN FullAcsNano ELSE FullRscAdvances]

expand_journal(j) ==
    LET jn == norm_punct(j)
    IN  IF jn \in DOMAIN JOURNAL_MAP THEN JOURNAL_MAP[jn] ELSE j

(***************************************************************************)
(* Scoring                                                                 *)
(***************************************************************************)
get_year_from_issued(item) ==
    LET issued == Get(item, "issued", <<>>)
        parts  == OrElse(Get(issued, "date-parts", <<>>), <<>>)
    IN  IF parts # <<>> /\ parts[1] # <<>> /\ Len(parts[1]) >= 1
        THEN IntToStr(parts[1][1])
        ELSE <<>>

\* number of the first (up to) three wanted authors found among the
\* candidate's family names, both normalised
AuthorMatches(item, want) ==
    LET want_auths == [i \in DOMAIN SelectSeq(want.authors, LAMBDA a : a # <<>>) |->
                          norm_punct(SelectSeq(want.authors, LAMBDA a : a # <<>>)[i])]
        with_family == SelectSeq(OrElse(Get(item, "author", <<>>), <<>>),
                                 LAMBDA a : Get(a, "family", <<>>) # <<>>)
        item_auths == {norm_punct(with_family[i]["family"]) : i \in DOMAIN with_family}
        first3     == SubSeq(want_auths, 1, IF Len(want_auths) < 3 THEN Len(want_auths) ELSE 3)
    IN  Cardinality({i \in DOMAIN first3 : first3[i] # <<>> /\ first3[i] \in item_auths})

\* the author score without its cap of 10
AuthorScore_uncapped(matches) == matches * 5

AuthorScore(matches) == IF matches * 5 < 10 THEN matches * 5 ELSE 10

YearScore(item, want) ==
    IF want.year # <<>> /\ get_year_from_issued(item) = want.year THEN 15 ELSE 0

JournalScore(item, want) ==
    LET cj_list == OrElse(Get(item, "container-title", <<>>), <<>>)
        cj == IF cj_list # <<>> THEN norm_punct(cj_list[1]) ELSE <<>>
        wj == norm_punct(expand_journal(want.journal))
    IN  IF cj # <<>> /\ wj # <<>> /\ (Contains(cj, wj) \/ Contains(wj, cj))
        THEN 20 ELSE 0

VolumeScore(item, want) ==
    LET cv == Strip(OrElse(Get(item, "volume", <<>>), <<>>))
    IN  IF cv # <<>> /\ want.volume # <<>> /\ cv = want.volume THEN 10 ELSE 0

\* the article number counted only when the page field does not match
PageScore_exclusive(item, want) ==
    LET wp == want.page_or_article
        ip == OrElse(Get(item, "page", <<>>), <<>>)
        ia == OrElse(Get(item, "article-number", <<>>), <<>>)
    IN  IF wp = <<>> THEN 0
        ELSE IF ip # <<>> /\ SearchWholeToken(wp, RemoveSpaces(ip)) THEN 15
        ELSE IF ia # <<>> /\ only_digits(ia) = only_digits(wp) THEN 15 ELSE 0

PageScore(item, want) ==
    LET wp == want.page_or_article
        ip == OrElse(Get(item, "page", <<>>), <<>>)
        ia == OrElse(Get(item, "article-number", <<>>), <<>>)
    IN  IF wp = <<>> THEN 0
        ELSE (IF ip # <<>> /\ SearchWholeToken(wp, RemoveSpaces(ip)) THEN 15 ELSE 0)
           + (IF ia # <<>> /\ only_digits(ia) = only_digits(wp) THEN 15 ELSE 0)

score_candidate(item, want) ==
    YearScore(item, want) + JournalScore(item, want) + VolumeScore(item, want)
      + PageScore(item, want) + AuthorScore(AuthorMatches(item, want))

(***************************************************************************)
(* TXT parsing                                                             *)
(***************************************************************************)
\* str.find: the lowest 1-based position of sub in s, 0 when absent (-1 in Python)
Find(s, sub) ==
    LET P == {p \in 1..(Len(s) - Len(sub) + 1) : SubSeq(s, p, p + Len(sub) - 1) = sub}
    IN  IF P = {} THEN 0 ELSE CHOOSE p \in P : \A q \in P : p <= q

\* str.rfind for a single character: the highest position, 0 when absent
RFindChar(s, c) ==
    LET P == {p \in DOMAIN s : s[p] = c}
    IN  IF P = {} THEN 0 ELSE CHOOSE p \in P : \A q \in P : q <= p

\* str.split(c)
RECURSIVE Split(_, _)
Split(s, c) ==
    LET P == {p \in DOMAIN s : s[p] = c}
    IN  IF P = {} THEN <<s>>
        ELSE LET p == CHOOSE x \in P : \A q \in P : x <= q
             IN  <<SubSeq(s, 1, p - 1)>> \o Split(SubSeq(s, p + 1, Len(s)), c)

\* [p.strip() for p in s.split(",") if p.strip()]
CommaParts(s) ==
    LET raw == Split(s, ",")
        stripped == [i \in DOMAIN raw |-> Strip(raw[i])]
    IN  SelectSeq(stripped, LAMBDA x : x # <<>>)

\* str.rstrip(".")
RECURSIVE RStripDots(_)
RStripDots(s) ==
    IF s # <<>> /\ s[Len(s)] = "." THEN RStripDots(SubSeq(s, 1, Len(s) - 1)) ELSE s

\* the first position at or after p of s that holds no whitespace
RECURSIVE SkipSpaces(_, _)
SkipSpaces(s, p) ==
    IF p \in DOMAIN s /\ IsSpace(s[p]) THEN SkipSpaces(s, p + 1) ELSE p

\* the first position at or after p of s that holds no digit
RECURSIVE SkipDigits(_, _)
SkipDigits(s, p) ==
    IF p \in DOMAIN s /\ IsDigit(s[p]) THEN SkipDigits(s, p + 1) ELSE p

\* int(s) for a string of decimal digits
RECURSIVE StrToInt(_)
StrToInt(s) ==
    IF s = <<>> THEN 0
    ELSE LET c == s[Len(s)]
             d == CHOOSE n \in 0..9 : IntToStr(n) = <<c>>
         IN  10 * StrToInt(SubSeq(s, 1, Len(s) - 1)) + d

\* re.match(r"\s*\[\d+\]", ln): the position after the closing bracket, 0 when
\* the line does not start with a marker
MarkerEnd(ln) ==
    LET b == SkipSpaces(ln, 1)
        e == SkipDigits(ln, b + 1)
    IN  IF b \in DOMAIN ln /\ ln[b] = "[" /\ e > b + 1 /\ e \in DOMAIN ln /\ ln[e] = "]"
        THEN e + 1 ELSE 0

RECURSIVE JoinLoop(_, _, _)
JoinLoop(lines, cur, refs) ==
    IF lines = <<>>
    THEN IF Strip(cur) # <<>> THEN Append(refs, Strip(cur)) ELSE refs
    ELSE LET ln == Head(lines)
         IN  IF MarkerEnd(ln) # 0
             THEN JoinLoop(Tail(lines), Strip(ln),
                           IF Strip(cur) # <<>> THEN Append(refs, Strip(cur)) ELSE refs)
             ELSE JoinLoop(Tail(lines), cur \o <<" ">> \o Strip(ln), refs)

\* txt is the sequence of physical lines of the file (read_text().splitlines())
join_wrapped_refs(txt) ==
    JoinLoop([i \in DOMAIN txt |-> RStrip(txt[i])], <<>>, <<>>)

\* returns <<found, idx, body>>; found = FALSE stands for the index None
strip_bracket_index(line) ==
    LET l == Strip(line)
        e == MarkerEnd(l)
    IN  IF e # 0
        THEN <<TRUE, StrToInt(SubSeq(l, 2, e - 2)), SubSeq(l, SkipSpaces(l, e), Len(l))>>
        ELSE <<FALSE, 0, l>>

\* re.search(r"\b(19|20)\d{2}\b", s); the empty string stands for None
extract_year(s) ==
    LET P == {p \in 1..(Len(s) - 3) :
                /\ SubSeq(s, p, p + 1) \in {<<"1", "9">>, <<"2", "0">>}
                /\ IsDigit(s[p + 2]) /\ IsDigit(s[p + 3])
                /\ WordBoundary(s, p) /\ WordBoundary(s, p + 4)}
    IN  IF P = {} THEN <<>>
        ELSE LET p == CHOOSE x \in P : \A q \in P : x <= q IN SubSeq(s, p, p + 3)

\* re.search(r",\s*([0-9]+)\s*,", tail): the digits of the leftmost match
VolumeBetweenCommas(tail) ==
    LET P == {p \in DOMAIN tail :
                /\ tail[p] = ","
                /\ LET q == SkipSpaces(tail, p + 1)
                       e == SkipDigits(tail, q)
                       r == SkipSpaces(tail, e)
                   IN  e > q /\ r \in DOMAIN tail /\ tail[r] = ","}
    IN  IF P = {} THEN <<>>
        ELSE LET p == CHOOSE x \in P : \A y \in P : x <= y
                 q == SkipSpaces(tail, p + 1)
             IN  SubSeq(tail, q, SkipDigits(tail, q) - 1)

\* re.search(r"[,;]\s*([0-9]+)\b", tail): the digits of the leftmost match
VolumeAfterSeparator(tail) ==
    LET P == {p \in DOMAIN tail :
                /\ tail[p] \in {",", ";"}
                /\ LET q == SkipSpaces(tail, p + 1)
                       e == SkipDigits(tail, q)
                   IN  e > q /\ WordBoundary(tail, e)}
    IN  IF P = {} THEN <<>>
        ELSE LET p == CHOOSE x \in P : \A y \in P : x <= y
                 q == SkipSpaces(tail, p + 1)
             IN  SubSeq(tail, q, SkipDigits(tail, q) - 1)

extract_volume_after_year(s, year) ==
    IF year = <<>> \/ Find(s, year) = 0 THEN <<>>
    ELSE LET tail == SubSeq(s, Find(s, year) + Len(year), Len(s))
         IN  IF VolumeBetweenCommas(tail) # <<>> THEN VolumeBetweenCommas(tail)
             ELSE VolumeAfterSeparator(tail)

\* re.search(r"[0-9]{3,}", token)
HasThreeDigits(token) ==
    \E p \in 1..(Len(token) - 2) :
        IsDigit(token[p]) /\ IsDigit(token[p + 1]) /\ IsDigit(token[p + 2])

extract_page_or_artnum(s) ==
    LET parts == CommaParts(s)
    IN  IF Len(parts) >= 2
        THEN LET token == SelectSeq(RStripDots(parts[Len(parts)]),
                                    LAMBDA c : c \notin {" ", "-"})
             IN  IF HasThreeDigits(token) THEN token ELSE <<>>
        ELSE <<>>

extract_journal(s, year) ==
    IF year = <<>> \/ Find(s, year) = 0 THEN <<>>
    ELSE LET left == RStrip(SubSeq(s, 1, Find(s, year) - 1))
             cpos == RFindChar(left, ",")
         IN  IF cpos = 0 THEN <<>>
             ELSE RStripDots(Strip(SubSeq(left, cpos + 1, Len(left))))

IsLetter(c) == c \in UpperChars \cup LowerChars

IsNameChar(c) == IsLetter(c) \/ c \in {"-", "'"}

RECURSIVE SkipNameChars(_, _)
SkipNameChars(s, p) ==
    IF p \in DOMAIN s /\ IsNameChar(s[p]) THEN SkipNameChars(s, p + 1) ELSE p

\* re.findall(r"[A-Za-z][A-Za-z\-']+", s), scanning from position p
RECURSIVE NameTokens(_, _)
NameTokens(s, p) ==
    IF p \notin DOMAIN s THEN <<>>
    ELSE IF IsLetter(s[p]) /\ SkipNameChars(s, p + 1) > p + 1
         THEN <<SubSeq(s, p, SkipNameChars(s, p + 1) - 1)>>
                \o NameTokens(s, SkipNameChars(s, p + 1))
         ELSE NameTokens(s, p + 1)

extract_author_lastnames(s, max_authors) ==
    LET year == extract_year(s)
        j    == extract_journal(s, year)
        stop == IF j # <<>> THEN Find(s, j) - 1
                ELSE IF year # <<>> THEN Find(s, year) - 1 ELSE Len(s)
        parts == CommaParts(SubSeq(s, 1, stop))
        firstParts == SubSeq(parts, 1, IF Len(parts) < max_authors THEN Len(parts)
                                       ELSE max_authors)
        named == SelectSeq(firstParts, LAMBDA x : NameTokens(x, 1) # <<>>)
    IN  [i \in DOMAIN named |->
            NameTokens(named[i], 1)[Len(NameTokens(named[i], 1))]]

\* the record parse_refs_from_txt builds for the i-th joined citation ln
ParseRecord(ln, i) ==
    LET ib   == strip_bracket_index(ln)
        body == ib[3]
        y    == extract_year(body)
    IN  [idx |-> IF ib[1] /\ ib[2] # 0 THEN ib[2] ELSE i,
         raw_ref |-> ln,
         authors |-> extract_author_lastnames(body, 5),
         journal |-> extract_journal(body, y),
         year |-> y,
         volume |-> extract_volume_after_year(body, y),
         page_or_article |-> extract_page_or_artnum(body)]

\* list.sort(key=idx): stable insertion of r into an idx-sorted sequence
RECURSIVE InsertSorted(_, _)
InsertSorted(sorted, r) ==
    IF sorted = <<>> THEN <<r>>
    ELSE IF sorted[Len(sorted)].idx <= r.idx THEN Append(sorted, r)
         ELSE Append(InsertSorted(SubSeq(sorted, 1, Len(sorted) - 1), r),
                     sorted[Len(sorted)])

\* the records left in document order
SortByIdx_documentOrder(recs) == recs

RECURSIVE SortByIdx(_)
SortByIdx(recs) ==
    IF recs = <<>> THEN <<>>
    ELSE InsertSorted(SortByIdx(SubSeq(recs, 1, Len(recs) - 1)), recs[Len(recs)])

parse_refs_from_txt(txt) ==
    LET joined == join_wrapped_refs(txt)
    IN  SortByIdx([i \in DOMAIN joined |-> ParseRecord(joined[i], i)])

(***************************************************************************)
(* Output CSV: a file is a sequence of lines, a line a sequence of fields, *)
(* a field a string (what csv.writer writes and csv.DictReader reads back) *)
(***************************************************************************)
Col_idx ==
    <<"i", "d", "x">>

Col_raw_ref ==
    <<"r", "a", "w", "_", "r", "e", "f">>

Col_best_doi ==
    <<"b", "e", "s", "t", "_", "d", "o", "i">>

Col_best_title ==
    <<"b", "e", "s", "t", "_", "t", "i", "t", "l", "e">>

Col_best_container_title ==
    <<"b", "e", "s", "t", "_", "c", "o", "n", "t", "a", "i", "n", "e",
      "r", "_", "t", "i", "t", "l", "e">>

Col_best_year ==
    <<"b", "e", "s", "t", "_", "y", "e", "a", "r">>

Col_best_volume ==
    <<"b", "e", "s", "t", "_", "v", "o", "l", "u", "m", "e">>

Col_best_page ==
    <<"b", "e", "s", "t", "_", "p", "a", "g", "e">>

Col_best_article_number ==
    <<"b", "e", "s", "t", "_", "a", "r", "t", "i", "c", "l", "e", "_",
      "n", "u", "m", "b", "e", "r">>

Col_score ==
    <<"s", "c", "o", "r", "e">>

Col_decision ==
    <<"d", "e", "c", "i", "s", "i", "o", "n">>

HEADER ==
    <<Col_idx,
      Col_raw_ref,
      Col_best_doi,
      Col_best_title,
      Col_best_container_title,
      Col_best_year,
      Col_best_volume,
      Col_best_page,
      Col_best_article_number,
      Col_score,
      Col_decision>>

Accepted ==
    <<"a", "c", "c", "e", "p", "t", "e", "d">>

LowConfidence ==
    <<"l", "o", "w", "_", "c", "o", "n", "f", "i", "d", "e", "n", "c", "e">>

NoMatch ==
    <<"n", "o", "_", "m", "a", "t", "c", "h">>

(***************************************************************************)
(* Input lines and catalog items the model draws from                      *)
(***************************************************************************)
LineRef1 ==
    <<"[", "1", "]", " ", "D", "o", "e", ",", " ", "R", "o", "e", ",",
      " ", "P", "o", "e", ",", " ", "A", "C", "S", " ", "N", "a", "n",
      "o", " ", "2", "0", "1", "9", ",", " ", "5", ",", " ", "1", "2", "3">>

LineRef2 ==
    <<"[", "2", "]", " ", "L", "e", "e", " ", "2", "0", "2", "0">>

LineZero ==
    <<"[", "0", "]", " ", "z">>

LinePlain ==
    <<"p", "r", "e">>

LineBlank ==
    <<>>

Doi1 ==
    <<"1", "0", ".", "1", "/", "X", " ">>

Doi2 ==
    <<"1", "0", ".", "2", "/", "y">>

TitleT ==
    <<"A", " ", "t">>

ContNano ==
    <<" ", "a", "c", "s", " ", "n", "a", "n", "o">>

ContOther ==
    <<"R", "S", "C", " ", "A", "d", "v", "a", "n", "c", "e", "s">>

Vol5 ==
    <<"5", " ">>

Page123 ==
    <<"1", "2", "3", "-", "1", "3", "0">>

PageOther ==
    <<"7", "7", "-", "8", "0">>

Art123 ==
    <<"n", "-", "1", "2", "3">>

NameDoe ==
    <<"D", "o", "e">>

NameRoe ==
    <<"R", "O", "E">>

NamePoe ==
    <<"P", "o", "e">>

NameLee ==
    <<"L", "e", "e">>

(***************************************************************************)
(* Candidates the catalog can return                                       *)
(***************************************************************************)
Issued2019 == "issued" :> ("date-parts" :> << <<2019>> >>)

\* a JSON object with none of the projected fields
ItemEmpty == << >>

ItemFull ==
    ("DOI" :> Doi1) @@ ("title" :> <<TitleT>>) @@ ("container-title" :> <<ContNano>>)
      @@ Issued2019 @@ ("volume" :> Vol5) @@ ("page" :> Page123)
      @@ ("article-number" :> Art123)
      @@ ("author" :> << "family" :> NameDoe, "family" :> NameRoe,
                         "given" :> NameLee, "family" :> NamePoe >>)

ItemYear == ("DOI" :> Doi2) @@ Issued2019

ItemYearB == ("DOI" :> Doi1) @@ Issued2019 @@ ("container-title" :> <<ContOther>>)

ItemJournalVol ==
    ("DOI" :> Doi2) @@ ("container-title" :> <<ContNano>>) @@ ("volume" :> Vol5)
      @@ ("author" :> << "family" :> NameLee >>)

\* year, journal and volume of LineRef1 and another page
ItemYearJournalVol ==
    ("DOI" :> Doi2) @@ Issued2019 @@ ("container-title" :> <<ContNano>>)
      @@ ("volume" :> Vol5) @@ ("page" :> PageOther)

\* year, journal and volume of LineRef1 and no DOI
ItemNoDoi ==
    Issued2019 @@ ("container-title" :> <<ContNano>>) @@ ("volume" :> Vol5)

ItemPool ==
    {ItemEmpty, ItemFull, ItemYear, ItemYearB, ItemJournalVol, ItemYearJournalVol}

LinePool == {LineRef1, LineRef2, LineZero, LinePlain, LineBlank}

\* all sequences over S of length 0..n
SeqsUpTo(S, n) == UNION {[1..k -> S] : k \in 0..n}

(***************************************************************************)
(* Bounds                                                                  *)
(***************************************************************************)
MaxLines == 2

MaxItems == 2

MaxRuns == 2

Procs == {1, 2}

(***************************************************************************)
(* State                                                                   *)
(*   txt     the lines of the input TXT file                               *)
(*   exists  whether the output CSV exists                                 *)
(*   disk    the lines of the output CSV that have reached the file        *)
(*   proc    per process: its position in main / resolve_and_write, its    *)
(*           arguments and locals (primary and fallback are the replies    *)
(*           to the two requests of crossref_query for the record in hand, *)
(*           None for a request not issued), the lines still in its file   *)
(*           buffer                                                        *)
(*           (pending), and for the properties the lines it has written    *)
(*           (written) and the file as it found it (disk0)                 *)
(*   nruns   number of invocations started                                 *)
(*   data    the rows of the data CSV of the DOI-attachment step           *)
(*   out     the rows that step has written, None before it has run        *)
(*   last    how the most recent invocation ended                          *)
(*           ("none" before the first one, "failed" when it could not read *)
(*           its input, "full", "other")                                   *)
(***************************************************************************)
VARIABLES txt, exists, disk, proc, nruns, last, data, out

vars == <<txt, exists, disk, proc, nruns, last, data, out>>

None == << >>

Some(x) == <<x>>

IdleProc ==
    [pc |-> "idle", resume |-> FALSE, start_idx |-> None, limit |-> None,
     min_score |-> 0, refs |-> << >>, start_after_idx |-> 0,
     write_header |-> FALSE, processed |-> 0, pos |-> 0,
     primary |-> None, fallback |-> None, items |-> << >>, k |-> 0, sc |-> 0, best |-> 0, best_score |-> -1,
     row |-> << >>, pending |-> << >>, written |-> << >>, disk0 |-> << >>,
     exists0 |-> FALSE]

\* an invocation without --start-idx and without --limit
PlainArgs(start_idx, limit) == start_idx = None /\ limit = None

\* how an invocation ended: "full" when it ran its loop to the end and was
\* started without --start-idx and --limit, "other" otherwise
Ended(p, outcome) ==
    IF outcome = "completed" /\ PlainArgs(proc[p].start_idx, proc[p].limit)
    THEN "full" ELSE "other"

(***************************************************************************)
(* Resume helper                                                           *)
(***************************************************************************)
\* int(s) succeeds
IsIntStr(s) == Strip(s) # << >> /\ \A i \in DOMAIN Strip(s) : IsDigit(Strip(s)[i])

\* row.get("idx", "0") for a csv.DictReader row under the field names of the
\* file's first line; None stands for a row too short to have the column
RowIdxField(fieldnames, line) ==
    LET C == {c \in DOMAIN fieldnames : fieldnames[c] = Col_idx}
    IN  IF C = {} THEN Some(<<"0">>)
        ELSE LET c == CHOOSE x \in C : \A y \in C : y <= x
             IN  IF c \in DOMAIN line THEN Some(line[c]) ELSE None

RECURSIVE MaxIdxLoop(_, _, _)
MaxIdxLoop(fieldnames, lines, max_idx) ==
    IF lines = << >> THEN max_idx
    ELSE LET v == RowIdxField(fieldnames, Head(lines))
             m == IF v # None /\ IsIntStr(v[1]) /\ StrToInt(Strip(v[1])) > max_idx
                  THEN StrToInt(Strip(v[1])) ELSE max_idx
         IN  MaxIdxLoop(fieldnames, Tail(lines), m)

\* the scan stopping before the last row
last_processed_idx_lagging(ex, file) ==
    IF ~ex \/ file = << >> THEN 0
    ELSE MaxIdxLoop(Head(file), SubSeq(file, 2, Len(file) - 1), 0)

last_processed_idx(ex, file) ==
    IF ~ex \/ file = << >> THEN 0
    ELSE MaxIdxLoop(Head(file), Tail(file), 0)

(***************************************************************************)
(* main                                                                    *)
(***************************************************************************)
\* --resume taking precedence over --start-idx
StartAfter_resumeFirst(resume, start_idx) ==
    IF resume THEN last_processed_idx(exists, disk)
    ELSE IF start_idx # None THEN start_idx[1]
    ELSE 0

StartAfter(resume, start_idx) ==
    IF start_idx # None THEN start_idx[1]
    ELSE IF resume THEN last_processed_idx(exists, disk)
    ELSE 0

\* the output opened for writing before the input is read
Main_openFirst(p, readable, resume, start_idx, limit, min_score) ==
    /\ proc[p].pc = "idle"
    /\ nruns < MaxRuns
    /\ nruns' = nruns + 1
    /\ exists' = TRUE
    /\ disk' = << >>
    /\ last' = IF readable THEN "other" ELSE "failed"
    /\ UNCHANGED <<data, out, txt, proc>>

\* main up to the call of resolve_and_write.  readable = FALSE: the TXT file
\* is missing or cannot be read or decoded, read_text (line 95, called from
\* line 379) raises and the process ends there.  An input without citations
\* ends the process at refs[0] (line 380).
Main(p, readable, resume, start_idx, limit, min_score) ==
    /\ proc[p].pc = "idle"
    /\ nruns < MaxRuns
    /\ nruns' = nruns + 1
    /\ LET refs == parse_refs_from_txt(txt)
           started == [IdleProc EXCEPT
                          !.pc = "open", !.resume = resume, !.start_idx = start_idx,
                          !.limit = limit, !.min_score = min_score, !.refs = refs,
                          !.start_after_idx = StartAfter(resume, start_idx),
                          !.disk0 = disk, !.exists0 = exists]
       IN  IF ~readable
           THEN proc' = proc /\ last' = "failed"
           ELSE IF refs = << >>
           THEN proc' = proc /\ last' = "other"
           ELSE proc' = [proc EXCEPT ![p] = started] /\ last' = last
    /\ UNCHANGED <<data, out, txt, exists, disk>>

(***************************************************************************)
(* resolve_and_write                                                       *)
(***************************************************************************)
\* every invocation opening the file in mode "w"
WriteHeader_always(ex, start_after_idx) == TRUE

WriteHeader(ex, start_after_idx) == ~ex \/ start_after_idx = 0

\* lines 301-315: choose the mode, open the file (mode "w" truncates, both
\* modes create), write the header into the file buffer
Open(p) ==
    /\ proc[p].pc = "open"
    /\ LET wh == WriteHeader(exists, proc[p].start_after_idx)
       IN  /\ exists' = TRUE
           /\ disk' = IF wh THEN << >> ELSE disk
           /\ proc' = [proc EXCEPT ![p] =
                         [proc[p] EXCEPT !.pc = "loop", !.write_header = wh,
                                         !.pending = IF wh THEN <<HEADER>> ELSE << >>]]
    /\ UNCHANGED <<data, out, txt, nruns, last>>

\* the resume point itself processed again
Skipped_exclusive(idx, start_after_idx) == idx < start_after_idx

\* line 319
Skipped(idx, start_after_idx) == idx <= start_after_idx

\* the break one row late
LimitReached_late(limit, processed) == limit # None /\ processed > limit[1]

\* line 321
LimitReached(limit, processed) == limit # None /\ processed >= limit[1]

\* the position of the first record after pos that is not skipped, or
\* Len(refs) + 1 when the loop runs off the end
RECURSIVE NextPos(_, _, _)
NextPos(refs, pos, start_after_idx) ==
    IF pos + 1 > Len(refs) THEN pos + 1
    ELSE IF Skipped(refs[pos + 1].idx, start_after_idx)
         THEN NextPos(refs, pos + 1, start_after_idx)
         ELSE pos + 1

\* lines 317-322: the head of the for loop
NextRecord(p) ==
    /\ proc[p].pc = "loop"
    /\ LET me == proc[p]
           n  == NextPos(me.refs, me.pos, me.start_after_idx)
       IN  proc' = [proc EXCEPT ![p] =
                      IF n > Len(me.refs) \/ LimitReached(me.limit, me.processed)
                      THEN [me EXCEPT !.pc = "close"]
                      ELSE [me EXCEPT !.pc = "query", !.pos = n]]
    /\ UNCHANGED <<data, out, txt, exists, disk, nruns, last>>

Want(rec) ==
    [authors |-> rec.authors, journal |-> rec.journal, year |-> rec.year,
     volume |-> rec.volume, page_or_article |-> rec.page_or_article]

(***************************************************************************)
(* crossref_query.  A reply to a request is [ok, body]: ok = FALSE stands   *)
(* for everything that raises inside the try block (transport error,       *)
(* timeout, raise_for_status on a non-success status, a body that is not   *)
(* JSON); body is the JSON object of a successful reply.                   *)
(***************************************************************************)
ErrorReply == [ok |-> FALSE, body |-> << >>]

\* a successful reply carrying the candidate list its
ItemsReply(its) == [ok |-> TRUE, body |-> ("message" :> ("items" :> its))]

\* a successful reply whose JSON object has no "message"
BareReply == [ok |-> TRUE, body |-> << >>]

\* lines 213, 231: r.json().get("message", {}).get("items", []) or []
ItemsOf(body) == OrElse(Get(Get(body, "message", << >>), "items", << >>), << >>)

\* the list a request contributes: its items, none when it raised
\* (lines 216-217, 232-233)
Candidates(reply) == IF reply.ok THEN ItemsOf(reply.body) ELSE << >>

\* the fallback request issued after every primary request
NeedsFallback_always(reply) == TRUE

\* lines 214-217: the primary request raised or returned no item
NeedsFallback(reply) == Candidates(reply) = << >>

\* lines 209-217: the primary request and its reply
Primary(p, Replies) ==
    /\ proc[p].pc = "query"
    /\ \E r \in Replies :
         proc' = [proc EXCEPT ![p] =
                    [proc[p] EXCEPT !.pc = IF NeedsFallback(r) THEN "fallback" ELSE "score",
                                    !.primary = Some(r), !.fallback = None,
                                    !.items = Candidates(r), !.k = 0, !.sc = 0,
                                    !.best = 0, !.best_score = -1]]
    /\ UNCHANGED <<data, out, txt, exists, disk, nruns, last>>

\* lines 219-233: the fallback request and its reply
Fallback(p, Replies) ==
    /\ proc[p].pc = "fallback"
    /\ \E r \in Replies :
         proc' = [proc EXCEPT ![p] =
                    [proc[p] EXCEPT !.pc = "score", !.fallback = Some(r),
                                    !.items = Candidates(r)]]
    /\ UNCHANGED <<data, out, txt, exists, disk, nruns, last>>

\* a later candidate with an equal score replacing the earlier one
Better_orEqual(sc, best_score) == sc >= best_score

\* line 336
Better(sc, best_score) == sc > best_score

\* lines 334-337: one iteration of the scan; best is the position in items
\* of the selected candidate, 0 for None
ScoreItem(p) ==
    /\ proc[p].pc = "score"
    /\ proc[p].k < Len(proc[p].items)
    /\ LET me == proc[p]
           k  == me.k + 1
           sc == score_candidate(me.items[k], Want(me.refs[me.pos]))
       IN  proc' = [proc EXCEPT ![p] =
                      IF Better(sc, me.best_score)
                      THEN [me EXCEPT !.k = k, !.sc = sc, !.best = k, !.best_score = sc]
                      ELSE [me EXCEPT !.k = k, !.sc = sc]]
    /\ UNCHANGED <<data, out, txt, exists, disk, nruns, last>>

\* line 341: `if best:` -- None and an empty dict are both false
Truthy(items, best) == best # 0 /\ items[best] # << >>

\* the comparison with the threshold turned round
Decision_inverted(best_score, min_score) ==
    IF best_score <= min_score THEN Accepted ELSE LowConfidence

\* line 351
Decision(best_score, min_score) ==
    IF best_score >= min_score THEN Accepted ELSE LowConfidence

FirstStripped(list) == IF list # << >> THEN Strip(list[1]) ELSE << >>

\* lines 339-354: the row for rec
MakeRow(rec, items, best, best_score, min_score) ==
    IF Truthy(items, best)
    THEN LET b == items[best]
         IN  <<IntToStr(rec.idx), rec.raw_ref,
               Strip(Lower(OrElse(Get(b, "DOI", << >>), << >>))),
               FirstStripped(OrElse(Get(b, "title", << >>), << >>)),
               FirstStripped(OrElse(Get(b, "container-title", << >>), << >>)),
               get_year_from_issued(b),
               Strip(OrElse(Get(b, "volume", << >>), << >>)),
               Strip(OrElse(Get(b, "page", << >>), << >>)),
               Strip(OrElse(Get(b, "article-number", << >>), << >>)),
               IntToStr(best_score),
               Decision(best_score, min_score)>>
    ELSE <<IntToStr(rec.idx), rec.raw_ref, << >>, << >>, << >>, << >>, << >>,
           << >>, << >>, << >>, NoMatch>>

\* lines 339-351, after the scan
Decide(p) ==
    /\ proc[p].pc = "score"
    /\ proc[p].k = Len(proc[p].items)
    /\ LET me == proc[p]
       IN  proc' = [proc EXCEPT ![p] =
                      [me EXCEPT !.pc = "write",
                                 !.row = MakeRow(me.refs[me.pos], me.items, me.best,
                                                 me.best_score, me.min_score)]]
    /\ UNCHANGED <<data, out, txt, exists, disk, nruns, last>>

\* lines 354-360: writerow puts the line into the file buffer and nothing
\* in the loop flushes it.  The io layer empties the buffer into the file
\* inside a write that fills it (flush = TRUE): whole lines, and when
\* depends on the byte lengths of the lines, which the model does not track.
Write(p) ==
    /\ proc[p].pc = "write"
    /\ \E flush \in BOOLEAN :
         LET me == proc[p]
             buffered == Append(me.pending, me.row)
         IN  /\ proc' = [proc EXCEPT ![p] =
                           [me EXCEPT !.pc = "loop",
                                      !.pending = IF flush THEN << >> ELSE buffered,
                                      !.written = Append(me.written, me.row),
                                      !.processed = me.processed + 1]]
             /\ disk' = IF flush THEN disk \o buffered ELSE disk
    /\ UNCHANGED <<data, out, txt, exists, nruns, last>>

Running(p) == proc[p].pc \in {"loop", "query", "fallback", "score", "write", "close"}

\* the end of the with block after the loop: the file is closed, which
\* flushes the buffer; main returns
Close(p) ==
    /\ proc[p].pc = "close"
    /\ disk' = disk \o proc[p].pending
    /\ last' = Ended(p, "completed")
    /\ proc' = [proc EXCEPT ![p] = IdleProc]
    /\ UNCHANGED <<data, out, txt, exists, nruns>>

\* KeyboardInterrupt (or any exception) inside the with block: the file is
\* closed on the way out, which flushes the buffer
Interrupt(p) ==
    /\ Running(p)
    /\ disk' = disk \o proc[p].pending
    /\ last' = Ended(p, "interrupted")
    /\ proc' = [proc EXCEPT ![p] = IdleProc]
    /\ UNCHANGED <<data, out, txt, exists, nruns>>

\* the process is killed: what is still in its buffer never reaches the file
Kill(p) ==
    /\ proc[p].pc # "idle"
    /\ last' = Ended(p, "killed")
    /\ proc' = [proc EXCEPT ![p] = IdleProc]
    /\ UNCHANGED <<data, out, txt, exists, disk, nruns>>

(***************************************************************************)
(* DOI attachment (expand-refs-attach-dois.py).  The mapping CSV is the     *)
(* output of the resolver; a row of the data CSV is a dict from column      *)
(* names to strings.                                                        *)
(***************************************************************************)
\* the four dash characters of EN_DASHES, each standing for one character
EN_DASHES == {"en dash", "em dash", "figure dash", "minus sign"}

DashToHyphen(s) == [i \in DOMAIN s |-> IF s[i] \in EN_DASHES THEN "-" ELSE s[i]]

\* list(range(a, b + 1))
RECURSIVE RangeList(_, _)
RangeList(a, b) == IF a > b THEN << >> ELSE <<a>> \o RangeList(a + 1, b)

\* str.isdigit(), re.fullmatch(r"\d+", s)
IsDigits(s) == s # << >> /\ \A i \in DOMAIN s : IsDigit(s[i])

expand_token_to_numbers(tok) ==
    LET t == DashToHyphen(Strip(tok))
        pieces == Split(t, "-")
        parts == SelectSeq([i \in DOMAIN pieces |-> Strip(pieces[i])], IsDigits)
        a == StrToInt(parts[1])
        b == StrToInt(parts[2])
    IN  IF (\E i \in DOMAIN t : t[i] = "-") /\ Len(parts) = 2
        THEN IF a <= b THEN RangeList(a, b) ELSE RangeList(b, a)
        ELSE IF IsDigits(t) THEN <<StrToInt(t)>>
        ELSE << >>

\* re.findall(r"\[(.*?)\]", s)
RECURSIVE BracketGroups(_)
BracketGroups(s) ==
    LET i == Find(s, <<"[">>)
        rest == SubSeq(s, i + 1, Len(s))
        j == Find(rest, <<"]">>)
    IN  IF i = 0 \/ j = 0 THEN << >>
        ELSE <<SubSeq(rest, 1, j - 1)>> \o BracketGroups(SubSeq(rest, j + 1, Len(rest)))

\* [t.strip() for t in re.split(r"[;,]", g) if t.strip()]
ListTokens(g) ==
    CommaParts([i \in DOMAIN g |-> IF g[i] = ";" THEN "," ELSE g[i]])

\* re.findall(r"\d+", s) as integers
RECURSIVE DigitRuns(_)
DigitRuns(s) ==
    LET D == {p \in DOMAIN s : IsDigit(s[p])}
        b == CHOOSE p \in D : \A q \in D : p <= q
        e == SkipDigits(s, b)
    IN  IF D = {} THEN << >>
        ELSE <<StrToInt(SubSeq(s, b, e - 1))>> \o DigitRuns(SubSeq(s, e, Len(s)))

\* the first occurrence of each number, in order
RECURSIVE Dedupe(_)
Dedupe(nums) ==
    IF nums = << >> THEN << >>
    ELSE LET front == Dedupe(SubSeq(nums, 1, Len(nums) - 1))
             n == nums[Len(nums)]
         IN  IF \E i \in DOMAIN front : front[i] = n THEN front ELSE Append(front, n)

RECURSIVE Flatten(_)
Flatten(lists) == IF lists = << >> THEN << >> ELSE Head(lists) \o Flatten(Tail(lists))

parse_refs_cell(val) ==
    LET s0 == Strip(val)
        groups == BracketGroups(s0)
        tokens == IF groups # << >>
                  THEN Flatten([i \in DOMAIN groups |-> ListTokens(groups[i])])
                  ELSE ListTokens(s0)
        nums == Flatten([i \in DOMAIN tokens |-> expand_token_to_numbers(tokens[i])])
    IN  IF s0 = << >> THEN << >>
        ELSE Dedupe(IF nums = << >> THEN DigitRuns(s0) ELSE nums)

\* pandas: the missing value, and the strings read_csv reads as missing
\* (the empty field and the other default markers)
NaN == <<"NaN">>

NaStrings == {<< >>, <<"N", "A">>, <<"n", "a", "n">>, <<"N", "a", "N">>}

\* a field as pd.read_csv returns it
ReadCell(field) == IF field \in NaStrings THEN NaN ELSE field

\* astype(str), str(): the missing value becomes the string nan
AsStr(v) == IF v = NaN THEN <<"n", "a", "n">> ELSE v

\* the position of the column called name, 0 when there is none
ColumnOf(columns, name) ==
    LET C == {c \in DOMAIN columns : columns[c] = name}
    IN  IF C = {} THEN 0 ELSE CHOOSE c \in C : \A d \in C : c <= d

\* load_ref_to_doi: [ok, map]; ok = FALSE when read_csv or the check of the
\* required columns raises; map is the dict from reference number to DOI
load_ref_to_doi(ex, file) ==
    LET columns == [c \in DOMAIN Head(file) |-> Strip(Head(file)[c])]
        cIdx == ColumnOf(columns, Col_idx)
        cDoi == ColumnOf(columns, Col_best_doi)
        cDec == ColumnOf(columns, Col_decision)
        Cell(row, c) == IF c \in DOMAIN row THEN ReadCell(row[c]) ELSE NaN
        Ok(row) == /\ Lower(Strip(AsStr(Cell(row, cDec)))) = Accepted
                   /\ Strip(AsStr(Cell(row, cDoi))) # << >>
                   /\ Cell(row, cIdx) # NaN /\ IsIntStr(Cell(row, cIdx))
        df_ok == SelectSeq(Tail(file), Ok)
        Num(row) == StrToInt(Strip(row[cIdx]))
        LastOf(n) == CHOOSE i \in DOMAIN df_ok :
                        /\ Num(df_ok[i]) = n
                        /\ \A j \in DOMAIN df_ok : Num(df_ok[j]) = n => j <= i
    IN  IF ~ex \/ file = << >> THEN [ok |-> FALSE, map |-> << >>]
        ELSE IF cIdx = 0 \/ cDoi = 0 \/ cDec = 0 THEN [ok |-> FALSE, map |-> << >>]
        ELSE [ok |-> TRUE,
              map |-> [n \in {Num(df_ok[i]) : i \in DOMAIN df_ok} |->
                          Strip(AsStr(Cell(df_ok[LastOf(n)], cDoi)))]]

\* "[n]"
BracketRef(n) == <<"[">> \o IntToStr(n) \o <<"]">>

\* the DOI column of the data: "doi", else "doi_list", else a new "doi"
DoiColumn(columns) ==
    IF "doi" \in columns THEN "doi"
    ELSE IF "doi_list" \in columns THEN "doi_list" ELSE "doi"

\* a data row as read with dtype=str and fillna(""), the DOI column added
\* when the file has none
ReadRow(row, doi_col) ==
    [c \in DOMAIN row \cup {doi_col} |->
        IF c \in DOMAIN row /\ row[c] \notin NaStrings THEN row[c] ELSE << >>]

\* lines 174-202: the output rows of one data row
ExpandRow(row, doi_col, refs_col, ref_to_doi) ==
    LET row_dict == ReadRow(row, doi_col)
        ref_nums == parse_refs_cell(row_dict[refs_col])
        mapped == SelectSeq(ref_nums, LAMBDA n : Get(ref_to_doi, n, << >>) # << >>)
    IN  IF Strip(row_dict[doi_col]) # << >> THEN <<row_dict>>
        ELSE [i \in DOMAIN mapped |->
                 [row_dict EXCEPT ![doi_col] = ref_to_doi[mapped[i]],
                                  ![refs_col] = BracketRef(mapped[i])]]

\* main of the DOI-attachment step with --refs-col "Refs." and no --doi-col:
\* it ends without output when the mapping cannot be loaded or the data has
\* no Refs. column
Expand ==
    /\ LET m == load_ref_to_doi(exists, disk)
           columns == IF data = << >> THEN {} ELSE DOMAIN data[1]
           doi_col == DoiColumn(columns)
       IN  /\ m.ok
           /\ "Refs." \in columns
           /\ out' = Some(Flatten([i \in DOMAIN data |->
                                     ExpandRow(data[i], doi_col, "Refs.", m.map)]))
    /\ UNCHANGED <<txt, exists, disk, proc, nruns, last, data>>

(***************************************************************************)
(* Specifications                                                          *)
(***************************************************************************)
Texts == SeqsUpTo(LinePool, MaxLines)

\* the command lines tried: <<--resume, --start-idx, --limit>>
CommandLines ==
    {<<r, None, l>> : r \in BOOLEAN, l \in {None, Some(1)}}
      \cup {<<FALSE, s, None>> : s \in {Some(-1), Some(0), Some(1)}}
      \cup {<<TRUE, Some(1), None>>}

DefaultMinScore == 35

\* what the catalog answers in the specifications about the run loop: the
\* primary request finds a candidate
RunReplies == {ItemsReply(<<ItemFull>>)}

Init ==
    /\ txt \in Texts
    /\ exists = FALSE
    /\ disk = << >>
    /\ proc = [p \in Procs |-> IdleProc]
    /\ nruns = 0
    /\ last = "none"
    /\ data = << >>
    /\ out = None

Step(p, Replies) ==
    \/ Open(p)
    \/ NextRecord(p)
    \/ Primary(p, Replies)
    \/ ScoreItem(p)
    \/ Decide(p)
    \/ Write(p)
    \/ Close(p)
    \/ Interrupt(p)
    \/ Kill(p)

Next ==
    \/ \E c \in CommandLines, readable \in BOOLEAN :
          Main(1, readable, c[1], c[2], c[3], DefaultMinScore)
    \/ Step(1, RunReplies)

Spec == Init /\ [][Next]_vars

\* Invocations without --start-idx and --limit only: a fresh run and
\* --resume runs, interrupted or killed at any point.
NextResume ==
    \/ \E resume \in BOOLEAN : Main(1, TRUE, resume, None, None, DefaultMinScore)
    \/ Step(1, RunReplies)

SpecResume == Init /\ [][NextResume]_vars

\* The scorer and the decision on every candidate list of up to MaxItems
\* items of ItemPool, for one citation and several thresholds; fresh runs
\* that are not interrupted.
ScoreTexts == {<<LineRef1>>, <<LineRef2>>}

MinScores == {0, DefaultMinScore, 86}

ScoreResponses == SeqsUpTo(ItemPool, MaxItems)

ScoreReplies == {ItemsReply(its) : its \in ScoreResponses}

InitScore ==
    /\ txt \in ScoreTexts
    /\ exists = FALSE
    /\ disk = << >>
    /\ proc = [p \in Procs |-> IdleProc]
    /\ nruns = 0
    /\ last = "none"
    /\ data = << >>
    /\ out = None

NextScore ==
    \/ \E min_score \in MinScores : Main(1, TRUE, FALSE, None, None, min_score)
    \/ Open(1)
    \/ NextRecord(1)
    \/ Primary(1, ScoreReplies)
    \/ Fallback(1, ScoreReplies)
    \/ ScoreItem(1)
    \/ Decide(1)
    \/ Write(1)
    \/ Close(1)

SpecScore == InitScore /\ [][NextScore]_vars

\* The two requests of crossref_query under every kind of reply (an error,
\* a JSON object without "message", an empty list, candidates), for fresh
\* runs over one and two citations that are not interrupted.
QueryTexts == {<<LineRef2>>, <<LineRef1, LineRef2>>}

QueryReplies ==
    {ErrorReply, BareReply, ItemsReply(<< >>), ItemsReply(<<ItemFull>>),
     ItemsReply(<<ItemYear, ItemFull>>)}

InitQuery ==
    /\ txt \in QueryTexts
    /\ exists = FALSE
    /\ disk = << >>
    /\ proc = [p \in Procs |-> IdleProc]
    /\ nruns = 0
    /\ last = "none"
    /\ data = << >>
    /\ out = None

NextQuery ==
    \/ Main(1, TRUE, FALSE, None, None, DefaultMinScore)
    \/ Open(1)
    \/ NextRecord(1)
    \/ Primary(1, QueryReplies)
    \/ Fallback(1, QueryReplies)
    \/ ScoreItem(1)
    \/ Decide(1)
    \/ Write(1)
    \/ Close(1)

SpecQuery == InitQuery /\ [][NextQuery]_vars

\* Two processes started with --resume on the same output, their steps
\* interleaved.  The output is as a run with --limit 1 left it: the header
\* and the row of the first of two citations, so that both processes open
\* it in append mode, where every write goes to the end of the file.
ConcurrentText == <<LineRef1, LineRef2>>

FirstRow ==
    MakeRow(parse_refs_from_txt(ConcurrentText)[1], <<ItemFull>>, 1,
            score_candidate(ItemFull, Want(parse_refs_from_txt(ConcurrentText)[1])),
            DefaultMinScore)

InitConcurrent ==
    /\ txt = ConcurrentText
    /\ exists = TRUE
    /\ disk = <<HEADER, FirstRow>>
    /\ proc = [p \in Procs |-> IdleProc]
    /\ nruns = 0
    /\ last = "other"
    /\ data = << >>
    /\ out = None

NextConcurrent ==
    \E p \in Procs :
        \/ Main(p, TRUE, TRUE, None, None, DefaultMinScore)
        \/ Step(p, RunReplies)

SpecConcurrent == InitConcurrent /\ [][NextConcurrent]_vars

\* The resolver followed by the DOI-attachment step: one fresh run over
\* two citations, not interrupted, with a catalog that answers with a
\* candidate that has a DOI, with one that has none, or fails; then the
\* step on the output of the run and one of the data tables.
DoiZ == <<"1", "0", ".", "9", "/", "z">>

RowHasDoi == ("Material" :> <<"A">>) @@ ("Refs." :> <<"[", "1", "]">>) @@ ("doi" :> DoiZ)

RowBoth ==
    ("Material" :> <<"B">>) @@ ("Refs." :> <<"[", "2", ",", "1", "-", "2", "]">>)
      @@ ("doi" :> << >>)

RowSecond == ("Material" :> <<"C">>) @@ ("Refs." :> <<"2">>) @@ ("doi" :> <<" ">>)

\* a table without DOI column
RowBare == ("Material" :> <<"D">>) @@ ("Refs." :> <<"1", ";", "3">>)

DataTables == {<<RowHasDoi, RowBoth>>, <<RowSecond, RowHasDoi>>, <<RowBare>>}

ExpandReplies == {ItemsReply(<<ItemFull>>), ItemsReply(<<ItemNoDoi>>), ErrorReply}

ExpandMinScores == {0, DefaultMinScore}

InitExpand ==
    /\ txt = <<LineRef1, LineRef2>>
    /\ exists = FALSE
    /\ disk = << >>
    /\ proc = [p \in Procs |-> IdleProc]
    /\ nruns = 0
    /\ last = "none"
    /\ data \in DataTables
    /\ out = None

\* the resolver runs while the step has not run
NextExpand ==
    \/ \E min_score \in ExpandMinScores :
          out = None /\ Main(1, TRUE, FALSE, None, None, min_score)
    \/ out = None /\ Open(1)
    \/ out = None /\ NextRecord(1)
    \/ out = None /\ Primary(1, ExpandReplies)
    \/ out = None /\ Fallback(1, ExpandReplies)
    \/ out = None /\ ScoreItem(1)
    \/ out = None /\ Decide(1)
    \/ out = None /\ Write(1)
    \/ out = None /\ Close(1)
    \/ Expand

SpecExpand == InitExpand /\ [][NextExpand]_vars

\* Invocations that all run to their end (no interrupt, no kill, a readable
\* input with at least one citation), with every command line, on an
\* output that is missing or exists empty when the first one starts.
CompletedTexts == {t \in Texts : parse_refs_from_txt(t) # << >>}

InitCompleted ==
    /\ txt \in CompletedTexts
    /\ exists \in BOOLEAN
    /\ disk = << >>
    /\ proc = [p \in Procs |-> IdleProc]
    /\ nruns = 0
    /\ last = "none"
    /\ data = << >>
    /\ out = None

NextCompleted ==
    \/ \E c \in CommandLines : Main(1, TRUE, c[1], c[2], c[3], DefaultMinScore)
    \/ Open(1)
    \/ NextRecord(1)
    \/ Primary(1, RunReplies)
    \/ ScoreItem(1)
    \/ Decide(1)
    \/ Write(1)
    \/ Close(1)

SpecCompleted == InitCompleted /\ [][NextCompleted]_vars

\* Batched resumption: every invocation is --resume --limit L without
\* --start-idx, runs to its end, and the output is missing before the
\* first one.
Limits == {1, 2}

InitBatched ==
    /\ txt \in CompletedTexts
    /\ exists = FALSE
    /\ disk = << >>
    /\ proc = [p \in Procs |-> IdleProc]
    /\ nruns = 0
    /\ last = "none"
    /\ data = << >>
    /\ out = None

NextBatched ==
    \/ \E L \in Limits : Main(1, TRUE, TRUE, None, Some(L), DefaultMinScore)
    \/ Open(1)
    \/ NextRecord(1)
    \/ Primary(1, RunReplies)
    \/ ScoreItem(1)
    \/ Decide(1)
    \/ Write(1)
    \/ Close(1)

SpecBatched == InitBatched /\ [][NextBatched]_vars

(***************************************************************************)
(* Vocabulary of the properties                                            *)
(***************************************************************************)
\* the data lines of a file: every line but the header
DataLines(file) == SelectSeq(file, LAMBDA l : l # HEADER)

\* the index a data line carries
LineIdx(line) == StrToInt(line[1])

\* the greatest index among the data lines of a file, 0 when it has none
MaxLineIdx(file) ==
    LET I == {LineIdx(DataLines(file)[i]) : i \in DOMAIN DataLines(file)}
    IN  IF I = {} THEN 0 ELSE CHOOSE m \in I : \A n \in I : n <= m

\* <<index, citation>> of each line / of each record
LineKeys(lines) == [i \in DOMAIN lines |-> <<lines[i][1], lines[i][2]>>]

RecordKeys(refs) == [i \in DOMAIN refs |-> <<IntToStr(refs[i].idx), refs[i].raw_ref>>]

\* a --resume invocation (no --start-idx) is in progress in p
ResumeRun(p) ==
    proc[p].pc # "idle" /\ proc[p].resume /\ proc[p].start_idx = None

\* the loop of p has ended and its file is about to be closed
LoopDone(p) == proc[p].pc = "close"

\* the file as it will be once everything p has buffered reaches it
FileOf(p) == disk \o proc[p].pending

\* the greatest score_candidate over a candidate list, -1 for the empty list
MaxScore(items, want) ==
    LET S == {score_candidate(items[i], want) : i \in DOMAIN items}
    IN  IF S = {} THEN -1 ELSE CHOOSE m \in S : \A n \in S : n <= m

\* the wanted fields of the record p is working on
WantOfCurrent(p) == Want(proc[p].refs[proc[p].pos])

(***************************************************************************)
(* C1  Resume idempotence: once an invocation without --start-idx and      *)
(* --limit has run its loop to the end, a following --resume invocation    *)
(* writes no line at all (no header, no row) and the file stays, line for  *)
(* line, what it was when the invocation started.                          *)
(***************************************************************************)
C1_ResumeIdempotent ==
    \A p \in Procs :
        (ResumeRun(p) /\ last = "full") =>
            /\ proc[p].written = << >>
            /\ proc[p].pending = << >>
            /\ disk = proc[p].disk0
            /\ exists

C1_Witness ==
    /\ ResumeRun(1) /\ last = "full" /\ LoopDone(1)
    /\ Len(proc[1].refs) = 2
    /\ Len(DataLines(disk)) = 2

(***************************************************************************)
(* C2  Resume appends only the missing tail: a --resume invocation without *)
(* --limit that finds an output with its header and rows whose greatest    *)
(* index is m >= 1 has written, when its loop ends, exactly one row for    *)
(* each parsed record with index > m, in order, no header, and the lines   *)
(* it found are still the beginning of the file.                           *)
(***************************************************************************)
C2_ResumeAppendsTail ==
    \A p \in Procs :
        LET me == proc[p]
            m  == MaxLineIdx(me.disk0)
        IN  (/\ ResumeRun(p) /\ LoopDone(p) /\ me.limit = None
             /\ me.disk0 # << >> /\ Head(me.disk0) = HEADER /\ m >= 1) =>
                /\ LineKeys(me.written)
                     = RecordKeys(SelectSeq(me.refs, LAMBDA r : r.idx > m))
                /\ FileOf(p) = me.disk0 \o me.written

C2_Witness ==
    /\ ResumeRun(1) /\ LoopDone(1) /\ proc[1].limit = None
    /\ proc[1].disk0 # << >> /\ Head(proc[1].disk0) = HEADER
    /\ MaxLineIdx(proc[1].disk0) = 1
    /\ Len(proc[1].written) = 1
    /\ LineIdx(proc[1].written[1]) = 2

(***************************************************************************)
(* C3  As claimed: whenever --resume or --start-idx is given, no record    *)
(* whose index is at or below the greatest index already in the existing   *)
(* output is processed.                                                    *)
(***************************************************************************)
C3_Original ==
    \A p \in Procs :
        (proc[p].pc # "idle" /\ (proc[p].resume \/ proc[p].start_idx # None)) =>
            \A i \in DOMAIN proc[p].written :
                LineIdx(proc[p].written[i]) > MaxLineIdx(proc[p].disk0)

(***************************************************************************)
(* C3  Amended: with --resume and no --start-idx the loop starts after the *)
(* greatest index last_processed_idx reads from the existing output and    *)
(* processes no record at or below it; with --start-idx the existing       *)
(* output is not read and the loop processes no record at or below the     *)
(* given index, whatever the output holds and whether or not --resume is   *)
(* set.                                                                    *)
(***************************************************************************)
C3_StartAfter ==
    \A p \in Procs :
        LET me == proc[p]
            after == IF me.start_idx # None THEN me.start_idx[1]
                     ELSE last_processed_idx(me.exists0, me.disk0)
        IN  (me.pc # "idle" /\ (me.resume \/ me.start_idx # None)) =>
                /\ me.start_after_idx = after
                /\ \A i \in DOMAIN me.written : LineIdx(me.written[i]) > after
                /\ \A i \in 1..(me.pos - 1) :
                      me.refs[i].idx > after =>
                          \E j \in DOMAIN me.written :
                              me.written[j][2] = me.refs[i].raw_ref

C3_Witness ==
    /\ proc[1].pc = "close" /\ proc[1].resume /\ proc[1].start_idx = Some(1)
    /\ MaxLineIdx(proc[1].disk0) = 2
    /\ Len(proc[1].written) = 1

(***************************************************************************)
(* C4  As claimed: at every point of a run at most one record has been     *)
(* scored without its row being in the file (the rows still in the buffer  *)
(* of the process, plus the record that is decided but not yet written).   *)
(***************************************************************************)
Undurable(p) ==
    Len(DataLines(proc[p].pending)) + (IF proc[p].pc = "write" THEN 1 ELSE 0)

C4_AtMostOneInFlight == \A p \in Procs : Undurable(p) <= 1

(***************************************************************************)
(* C5  As claimed: when an invocation without --start-idx and --limit has  *)
(* run its loop to the end, after any number of interrupted or killed      *)
(* fresh and --resume invocations, the output is the header followed by    *)
(* exactly one row for every parsed record.                                *)
(***************************************************************************)
C5_OneRowPerRecord ==
    (last = "full" /\ proc[1].pc = "idle") =>
        /\ disk # << >> /\ Head(disk) = HEADER
        /\ LineKeys(Tail(disk)) = RecordKeys(parse_refs_from_txt(txt))

(***************************************************************************)
(* C6  As claimed: the decision is accepted exactly when at least one      *)
(* candidate was returned and the best score is >= min_score,              *)
(* low_confidence exactly when at least one candidate was returned and the *)
(* best score is < min_score, and no_match exactly when no candidate was   *)
(* returned.                                                               *)
(***************************************************************************)
C6_DecisionRule ==
    \A p \in Procs :
        LET me == proc[p]
            top == MaxScore(me.items, WantOfCurrent(p))
            decision == me.row[11]
        IN  me.pc = "write" =>
                /\ decision = Accepted <=> (me.items # << >> /\ top >= me.min_score)
                /\ decision = LowConfidence <=> (me.items # << >> /\ top < me.min_score)
                /\ decision = NoMatch <=> me.items = << >>

(***************************************************************************)
(* C7  Decision monotonicity: for the candidates and wanted fields of the  *)
(* record just decided under min_score, under any threshold at least as    *)
(* high a low_confidence decision does not become accepted and a no_match  *)
(* decision stays no_match.                                                *)
(***************************************************************************)
C7_DecisionMonotone ==
    \A p \in Procs :
        LET me == proc[p]
        IN  me.pc = "write" =>
                \A min2 \in MinScores :
                    LET decision2 == MakeRow(me.refs[me.pos], me.items, me.best,
                                             me.best_score, min2)[11]
                    IN  min2 >= me.min_score =>
                            /\ me.row[11] = LowConfidence => decision2 # Accepted
                            /\ me.row[11] = NoMatch => decision2 = NoMatch

C7_Witness ==
    /\ proc[1].pc = "write"
    /\ proc[1].row[11] = LowConfidence
    /\ proc[1].min_score = DefaultMinScore
    /\ proc[1].best_score > 0

(***************************************************************************)
(* C8  The score of every candidate scored is an integer from 0 to 85.     *)
(***************************************************************************)
C8_ScoreBounded ==
    \A p \in Procs : proc[p].sc \in 0..85

C8_Witness ==
    /\ proc[1].pc = "score" /\ proc[1].k = 1
    /\ proc[1].sc = 85

(***************************************************************************)
(* C9  Best-candidate selection: when the scan of a non-empty candidate    *)
(* list is over, the selected candidate is the earliest one whose score    *)
(* equals the greatest score of the list, and best_score is that score;    *)
(* for an empty list no candidate is selected.                             *)
(***************************************************************************)
C9_FirstBestWins ==
    \A p \in Procs :
        LET me == proc[p]
            want == WantOfCurrent(p)
            top == MaxScore(me.items, want)
        IN  (me.pc = "score" /\ me.k = Len(me.items)) =>
                IF me.items = << >> THEN me.best = 0
                ELSE /\ me.best \in DOMAIN me.items
                     /\ score_candidate(me.items[me.best], want) = top
                     /\ \A i \in 1..(me.best - 1) :
                           score_candidate(me.items[i], want) < top
                     /\ me.best_score = top

C9_Witness ==
    /\ proc[1].pc = "score" /\ proc[1].k = 2 /\ Len(proc[1].items) = 2
    /\ proc[1].best = 1
    /\ proc[1].items[1] # proc[1].items[2]
    /\ score_candidate(proc[1].items[2], WantOfCurrent(1)) = proc[1].best_score

(***************************************************************************)
(* C10  As claimed: within one run no index is written more than once,     *)
(* and a --resume run writes rows only for indices greater than the last   *)
(* recorded one.                                                           *)
(***************************************************************************)
C10_IndexWrittenOnce ==
    \A p \in Procs :
        LET w == proc[p].written
        IN  /\ \A i, j \in DOMAIN w : i # j => w[i][1] # w[j][1]
            /\ ResumeRun(p) =>
                  \A i \in DOMAIN w :
                      LineIdx(w[i]) > last_processed_idx(proc[p].exists0, proc[p].disk0)

(***************************************************************************)
(* C11  Processing limit: an invocation given --limit L has never written  *)
(* more than L rows; its rows are, in order, the first records with index  *)
(* > start_after_idx, and when its loop ends there are min(L, number of    *)
(* such records) of them, so that the records at or below start_after_idx  *)
(* take nothing from L.                                                    *)
(***************************************************************************)
Eligible(p) ==
    SelectSeq(proc[p].refs, LAMBDA r : r.idx > proc[p].start_after_idx)

C11_LimitCaps ==
    \A p \in Procs :
        LET me == proc[p]
            n  == Len(me.written)
        IN  (me.pc # "idle" /\ me.limit # None) =>
                /\ n <= me.limit[1]
                /\ n <= Len(Eligible(p))
                /\ LineKeys(me.written) = SubSeq(RecordKeys(Eligible(p)), 1, n)
                /\ LoopDone(p) =>
                      n = IF me.limit[1] < Len(Eligible(p))
                          THEN me.limit[1] ELSE Len(Eligible(p))

\* a --resume --limit 1 run over two records, the first of them skipped,
\* has written the second
C11_Witness ==
    /\ LoopDone(1) /\ proc[1].limit = Some(1)
    /\ proc[1].start_after_idx = 1
    /\ Len(proc[1].refs) = 2 /\ proc[1].refs[1].idx = 1
    /\ Len(proc[1].written) = 1 /\ LineIdx(proc[1].written[1]) = 2

(***************************************************************************)
(* C12  As claimed: the segmenter returns exactly one citation for each    *)
(* line of the text that starts with a [digits] marker, each citation made *)
(* of its marker line and the non-marker lines that follow it; the text    *)
(* before the first marker is discarded and a text without markers gives   *)
(* no citation.  Stated on the records an invocation has parsed (one for   *)
(* each citation of the segmenter, raw_ref being the citation).            *)
(***************************************************************************)
\* the lines of the text that start with a marker
MarkerLines(text) == {i \in DOMAIN text : MarkerEnd(text[i]) # 0}

\* the last line of the citation that starts at marker line i
LastLineOf(text, i) ==
    LET Later == {j \in MarkerLines(text) : j > i}
    IN  IF Later = {} THEN Len(text)
        ELSE (CHOOSE j \in Later : \A k \in Later : j <= k) - 1

\* lines i..j of the text, each stripped, joined with single spaces
RECURSIVE SpaceJoined(_, _, _)
SpaceJoined(text, i, j) ==
    IF i > j THEN << >>
    ELSE IF i = j THEN Strip(text[i])
    ELSE SpaceJoined(text, i, j - 1) \o <<" ">> \o Strip(text[j])

\* the citation of marker line i as the claim describes it
CitationOf(text, i) == Strip(SpaceJoined(text, i, LastLineOf(text, i)))

C12_SegmenterCount ==
    \A p \in Procs :
        proc[p].pc # "idle" =>
            /\ Len(proc[p].refs) = Cardinality(MarkerLines(txt))
            /\ \A k \in DOMAIN proc[p].refs :
                  \E i \in MarkerLines(txt) :
                      proc[p].refs[k].raw_ref = CitationOf(txt, i)

(***************************************************************************)
(* C13  Strictly sequential, ordered processing: the records of an         *)
(* invocation are in ascending order of index; a record goes from the      *)
(* query to the scan of its candidates, to the decision, to the write of   *)
(* its row and to nothing else in between; a query is issued only when a   *)
(* row has been written for every record processed before it; rows are     *)
(* written one at a time, each for the record in hand, and the indices of  *)
(* the rows written in one run never decrease.                             *)
(***************************************************************************)
\* the records before position n that the loop does not skip
ProcessedBefore(p, n) ==
    SelectSeq(SubSeq(proc[p].refs, 1, n - 1),
              LAMBDA r : ~Skipped(r.idx, proc[p].start_after_idx))

SequentialState(p) ==
    LET me == proc[p]
    IN  /\ \A i, j \in DOMAIN me.refs : i < j => me.refs[i].idx <= me.refs[j].idx
        /\ \A i, j \in DOMAIN me.written :
              i < j => LineIdx(me.written[i]) <= LineIdx(me.written[j])
        /\ me.pc \in {"query", "fallback", "score", "write"} =>
              /\ me.pos \in DOMAIN me.refs
              /\ LineKeys(me.written) = RecordKeys(ProcessedBefore(p, me.pos))
        /\ me.pc = "write" =>
              /\ me.k = Len(me.items)
              /\ me.row[1] = IntToStr(me.refs[me.pos].idx)
              /\ me.row[2] = me.refs[me.pos].raw_ref

SequentialStep(p) ==
    LET me == proc[p]
        to == proc'[p]
    IN  /\ me.pc = "query" => to.pc \in {"query", "fallback", "score", "idle"}
        /\ me.pc = "fallback" => to.pc \in {"fallback", "score", "idle"}
        /\ me.pc = "score" => to.pc \in {"score", "write", "idle"}
        /\ me.pc = "write" => to.pc \in {"write", "loop", "idle"}
        /\ (to.pc = "query" /\ me.pc # "query") => me.pc = "loop" /\ to.pos > me.pos
        /\ (to.pc = "score" /\ me.pc = "score") =>
              /\ to.k = me.k + 1 /\ to.pos = me.pos /\ to.items = me.items
        /\ (to.pc # "idle" /\ to.written # me.written) =>
              /\ me.pc = "write"
              /\ to.written = Append(me.written, me.row)

C13_Sequential ==
    /\ [](\A p \in Procs : SequentialState(p))
    /\ [][\A p \in Procs : SequentialStep(p)]_vars

\* the second record of a text given out of order is being queried, the
\* row of the first one written
C13_Witness ==
    /\ txt = <<LineRef2, LineRef1>>
    /\ proc[1].pc = "query" /\ proc[1].pos = 2
    /\ proc[1].refs[1].idx = 1
    /\ Len(proc[1].written) = 1 /\ LineIdx(proc[1].written[1]) = 1

(***************************************************************************)
(* C14  Query fallback and failure containment: the fallback request is    *)
(* issued exactly when the primary request raised an error or returned no  *)
(* item; the candidates of a record are those of the primary request when  *)
(* it returned at least one, else those of the fallback request, a request *)
(* that failed counting for an empty list; no reply, failed or not, ends   *)
(* the run, and the record gets its row (no_match when there is no         *)
(* candidate).                                                             *)
(***************************************************************************)
\* the request raised an error / returned at least one item
Raised(reply) == ~reply.ok

Returned(reply) ==
    IF ~reply.ok \/ "message" \notin DOMAIN reply.body THEN << >>
    ELSE IF "items" \notin DOMAIN reply.body["message"] THEN << >>
    ELSE reply.body["message"]["items"]

FallbackRule(p) ==
    LET me == proc[p]
    IN  /\ me.pc = "fallback" =>
              /\ me.primary # None /\ me.fallback = None
              /\ Raised(me.primary[1]) \/ Returned(me.primary[1]) = << >>
        /\ me.pc \in {"score", "write"} =>
              /\ me.primary # None
              /\ me.fallback # None <=>
                    (Raised(me.primary[1]) \/ Returned(me.primary[1]) = << >>)
              /\ me.items = IF me.fallback = None THEN Returned(me.primary[1])
                            ELSE Returned(me.fallback[1])
        /\ me.pc = "write" =>
              /\ me.row[2] = me.refs[me.pos].raw_ref
              /\ me.items = << >> => me.row[11] = NoMatch

\* a reply moves the record on and never ends the process
Contained(p) ==
    /\ proc[p].pc = "query" => proc'[p].pc \in {"query", "fallback", "score"}
    /\ proc[p].pc = "fallback" => proc'[p].pc \in {"fallback", "score"}

C14_FallbackContained ==
    /\ [](\A p \in Procs : FallbackRule(p))
    /\ [][\A p \in Procs : Contained(p)]_vars

\* both requests of the first record failed, its no_match row is written
\* and the second record is being queried
C14_Witness ==
    /\ proc[1].pc = "query" /\ proc[1].pos = 2
    /\ proc[1].primary = Some(ErrorReply) /\ proc[1].fallback = Some(ErrorReply)
    /\ Len(proc[1].written) = 1 /\ proc[1].written[1][11] = NoMatch

(***************************************************************************)
(* C15  Fatal input failure leaves the output untouched: an invocation     *)
(* whose input file is missing or unreadable ends without the output       *)
(* having been opened: the file exists or not as before, and holds line    *)
(* for line what it held, with no header and no row added.                 *)
(***************************************************************************)
\* the step of an invocation that fails on its input: an invocation is
\* counted, it has failed and no process is left running
InputFailure ==
    /\ nruns' = nruns + 1
    /\ last' = "failed"
    /\ \A p \in Procs : proc'[p].pc = "idle"

C15_InputFailureNoOutput ==
    [][InputFailure =>
          /\ exists' = exists
          /\ disk' = disk
          /\ \A p \in Procs : proc'[p].pending = << >>]_vars

\* an invocation has failed on its input with rows of an earlier invocation
\* in the output
C15_Witness ==
    /\ last = "failed" /\ nruns = 2
    /\ exists /\ disk # << >> /\ Head(disk) = HEADER
    /\ Len(DataLines(disk)) >= 1

(***************************************************************************)
(* C16  As claimed: on the output as it stands, last_processed_idx returns *)
(* the greatest of the index values that parse as integers over all the    *)
(* rows of the file, rows whose index does not parse being skipped, and 0  *)
(* when the file is missing, has no rows or has no index that parses.      *)
(***************************************************************************)
\* the index values of the rows of a file that parse as integers
ParsableIdx(file) ==
    {StrToInt(Strip(file[i][1])) :
        i \in {n \in DOMAIN file : file[n] # << >> /\ IsIntStr(file[n][1])}}

MaxParsableIdx(ex, file) ==
    IF ~ex \/ ParsableIdx(file) = {} THEN 0
    ELSE CHOOSE m \in ParsableIdx(file) : \A n \in ParsableIdx(file) : n <= m

C16_ScanTolerant ==
    last_processed_idx(exists, disk) = MaxParsableIdx(exists, disk)

(***************************************************************************)
(* C17  As claimed: the row made for a record has a decision among         *)
(* accepted, low_confidence and no_match, and its score field is empty     *)
(* exactly when the record had no candidate; otherwise it is the score of  *)
(* the best candidate, written as an integer.                              *)
(***************************************************************************)
C17_RowWellFormed ==
    \A p \in Procs :
        LET me == proc[p]
        IN  me.pc = "write" =>
                /\ Len(me.row) = Len(HEADER)
                /\ me.row[11] \in {Accepted, LowConfidence, NoMatch}
                /\ me.row[10] = << >> <=> me.items = << >>
                /\ me.items # << >> =>
                      me.row[10] = IntToStr(MaxScore(me.items, WantOfCurrent(p)))

(***************************************************************************)
(* C18  Score composition: the score of a candidate is 15 when its year is *)
(* the wanted one, plus 20 when one of the normalised journal names        *)
(* contains the other, plus 10 when the volumes are equal, plus 15 when    *)
(* its page field holds the wanted page or article number as a whole       *)
(* token, plus 15 when its article number has the digits of the wanted     *)
(* one (the two counted independently), plus 5 for each of the first three *)
(* wanted authors among its family names up to 10.  A candidate matching   *)
(* year, journal and volume scores at least 45, and the record it was      *)
(* returned for is accepted at the default threshold.                      *)
(***************************************************************************)
YearMatches(item, want) ==
    want.year # << >> /\ get_year_from_issued(item) = want.year

JournalMatches(item, want) ==
    LET titles == IF "container-title" \in DOMAIN item
                  THEN item["container-title"] ELSE << >>
        cj == IF titles # << >> THEN norm_punct(titles[1]) ELSE << >>
        wj == norm_punct(expand_journal(want.journal))
    IN  cj # << >> /\ wj # << >> /\ (Contains(cj, wj) \/ Contains(wj, cj))

VolumeMatches(item, want) ==
    /\ "volume" \in DOMAIN item /\ want.volume # << >>
    /\ Strip(item["volume"]) = want.volume

PageFieldMatches(item, want) ==
    /\ "page" \in DOMAIN item /\ item["page"] # << >>
    /\ want.page_or_article # << >>
    /\ SearchWholeToken(want.page_or_article, RemoveSpaces(item["page"]))

ArticleNumberMatches(item, want) ==
    /\ "article-number" \in DOMAIN item /\ item["article-number"] # << >>
    /\ want.page_or_article # << >>
    /\ only_digits(item["article-number"]) = only_digits(want.page_or_article)

Points(match, n) == IF match THEN n ELSE 0

ComposedScore(item, want) ==
    Points(YearMatches(item, want), 15) + Points(JournalMatches(item, want), 20)
      + Points(VolumeMatches(item, want), 10)
      + Points(PageFieldMatches(item, want), 15)
      + Points(ArticleNumberMatches(item, want), 15)
      + (IF 5 * AuthorMatches(item, want) > 10 THEN 10
         ELSE 5 * AuthorMatches(item, want))

MatchesYearJournalVolume(item, want) ==
    YearMatches(item, want) /\ JournalMatches(item, want) /\ VolumeMatches(item, want)

C18_ScoreComposition ==
    \A p \in Procs :
        LET me == proc[p]
            want == WantOfCurrent(p)
        IN  /\ (me.pc = "score" /\ me.k >= 1) =>
                  /\ me.sc = ComposedScore(me.items[me.k], want)
                  /\ MatchesYearJournalVolume(me.items[me.k], want) => me.sc >= 45
            /\ (/\ me.pc = "write" /\ me.min_score = DefaultMinScore
                /\ \E i \in DOMAIN me.items :
                      MatchesYearJournalVolume(me.items[i], want)) =>
                  me.row[11] = Accepted

\* a candidate with only the year, journal and volume of the citation
\* scored 45 and was accepted at the default threshold
C18_Witness ==
    /\ proc[1].pc = "write" /\ proc[1].min_score = DefaultMinScore
    /\ proc[1].items = <<ItemYearJournalVol>>
    /\ proc[1].sc = 45
    /\ proc[1].row[11] = Accepted /\ proc[1].row[10] = <<"4", "5">>

(***************************************************************************)
(* C19  Concurrent runs corrupt the checkpoint: with two --resume runs on  *)
(* one output and their steps interleaved, the output comes to hold two    *)
(* rows for the same index (the witness).  It does so only through a       *)
(* second writer: every step that makes the output hold two rows for one   *)
(* index, or rows out of ascending order, is a write of a process whose    *)
(* file another process has written to since the process read its resume   *)
(* point; a process that is the only writer during its run never does it.  *)
(***************************************************************************)
\* two rows for one index, or rows out of ascending order
Corrupt(file) ==
    \E i, j \in DOMAIN DataLines(file) :
        i < j /\ LineIdx(DataLines(file)[i]) >= LineIdx(DataLines(file)[j])

\* the rows of p that have reached the file
Flushed(p) ==
    SubSeq(proc[p].written, 1, Len(proc[p].written) - Len(DataLines(proc[p].pending)))

\* the file holds something that p did not find and did not write
ForeignWrites(p) == disk # proc[p].disk0 \o Flushed(p)

C19_CorruptOnlyByOverlap ==
    [][\A p \in Procs :
          (/\ proc'[p] # proc[p] /\ disk' # disk
           /\ ~Corrupt(disk) /\ Corrupt(disk')) => ForeignWrites(p)]_vars

\* both runs are over and the output holds two rows for index 2
C19_Witness ==
    /\ \A p \in Procs : proc[p].pc = "idle"
    /\ nruns = 2
    /\ Len(DataLines(disk)) = 3
    /\ LineIdx(DataLines(disk)[2]) = 2 /\ LineIdx(DataLines(disk)[3]) = 2

(***************************************************************************)
(* C20  As claimed: the reference numbers that load_ref_to_doi maps are    *)
(* those of the mapping rows whose decision is accepted and whose best_doi *)
(* is not empty, each mapped to that best_doi; the expansion keeps a data  *)
(* row that has a DOI as it is, replaces a row without DOI by one row for  *)
(* each number of its Refs. cell that is mapped, in the order of the cell, *)
(* and drops it when none is; so every DOI of the output is either one the *)
(* data had or the non-empty best_doi of an accepted mapping row.          *)
(***************************************************************************)
\* the rows of the mapping file that are accepted with a DOI, the columns
\* being those of HEADER
AcceptedRows(file) ==
    SelectSeq(Tail(file), LAMBDA l : Len(l) = Len(HEADER)
                                       /\ l[11] = Accepted /\ Strip(l[3]) # << >>)

AcceptedDois(file, n) ==
    {Strip(AcceptedRows(file)[i][3]) :
        i \in {k \in DOMAIN AcceptedRows(file) : LineIdx(AcceptedRows(file)[k]) = n}}

\* what the claim has the expansion make of one data row
ClaimedRows(row, file) ==
    LET full == [c \in DOMAIN row \cup {"doi"} |-> IF c \in DOMAIN row THEN row[c] ELSE << >>]
        nums == SelectSeq(parse_refs_cell(full["Refs."]),
                          LAMBDA n : AcceptedDois(file, n) # {})
    IN  IF Strip(full["doi"]) # << >> THEN <<full>>
        ELSE [i \in DOMAIN nums |->
                 [full EXCEPT !["doi"] = CHOOSE d \in AcceptedDois(file, nums[i]) : TRUE,
                              !["Refs."] = BracketRef(nums[i])]]

C20_AcceptedOnly ==
    out # None =>
        /\ DOMAIN load_ref_to_doi(exists, disk).map
             = {LineIdx(AcceptedRows(disk)[i]) : i \in DOMAIN AcceptedRows(disk)}
        /\ out[1] = Flatten([i \in DOMAIN data |-> ClaimedRows(data[i], disk)])
        /\ \A i \in DOMAIN out[1] :
              \/ \E j \in DOMAIN data :
                    "doi" \in DOMAIN data[j] /\ data[j]["doi"] = out[1][i]["doi"]
              \/ \E j \in DOMAIN AcceptedRows(disk) :
                    Strip(AcceptedRows(disk)[j][3]) = out[1][i]["doi"]

(***************************************************************************)
(* C21  As claimed: once an invocation has completed, whatever invocations *)
(* completed before it (fresh, --resume, --start-idx with any value) and   *)
(* whether the output was missing or empty at the start, the output holds  *)
(* exactly one header line and it is the first line of the file.           *)
(***************************************************************************)
HeaderCount(file) == Len(SelectSeq(file, LAMBDA l : l = HEADER))

C21_OneHeader ==
    (nruns >= 1 /\ \A p \in Procs : proc[p].pc = "idle") =>
        /\ exists
        /\ disk # << >> /\ Head(disk) = HEADER
        /\ HeaderCount(disk) = 1

(***************************************************************************)
(* C22  As claimed: when --resume --limit L invocations are repeated until *)
(* one of them writes no row, the output then holds exactly one row for    *)
(* each parsed record (as many rows as records, and each index and         *)
(* citation on as many rows as there are records carrying them), also      *)
(* when two records carry the same index.                                  *)
(***************************************************************************)
Occurrences(seq, x) == Cardinality({i \in DOMAIN seq : seq[i] = x})

OneRowPerRecord(file, refs) ==
    LET rows == LineKeys(DataLines(file))
        recs == RecordKeys(refs)
    IN  /\ Len(rows) = Len(recs)
        /\ \A i \in DOMAIN recs : Occurrences(rows, recs[i]) = Occurrences(recs, recs[i])

\* the invocation in hand has ended its loop without writing a row
WroteNothing(p) == LoopDone(p) /\ proc[p].written = << >>

C22_BatchedCoverage ==
    WroteNothing(1) => OneRowPerRecord(FileOf(1), proc[1].refs)
====
